---- MODULE Spec2Model ----
(***************************************************************************)
(* Model of src/index.js: the WebGL2 driver of a 2-D fluid solver.  The    *)
(* state is the part of the GL context the script touches (current         *)
(* program, bound framebuffer, viewport, the two texture units, the        *)
(* uniforms of each program), the canvas size, the ping-pong indices and   *)
(* the position of the script.  One action per kernel draw call.           *)
(*                                                                         *)
(* A texture is written as <<name, i>>; a framebuffer object is written    *)
(* as the texture attached to it, the default framebuffer as NullFB.       *)
(* Values given to uniform1f are kept in millionths (dt = 0.000016 is 16). *)
(***************************************************************************)
EXTENDS Integers, Sequences, FiniteSets, TLC

\* ---------------------------------------------------------------- bounds
MaxFrames == 2
MaxExtra == 1

\* ------------------------------------------------------ program constants
SIM_SIZE == 128
PRESSURE_SWEEPS == 20
Micro == 1000 * 1000
params == [dt |-> 16, diffusion |-> 1, iterations |-> 5]

\* sizes the window (innerWidth, clientWidth, ...) can take
DisplaySizes == SIM_SIZE .. (SIM_SIZE + MaxExtra)

F(x) == x * Micro

Xor1(b) == 1 - b

\* -------------------------------------------------------------- GL objects
Programs == {"diffusionX", "diffusionY", "render", "divergence",
             "pressureSolver", "velocityCorrection"}
Kernels == Programs \ {"render"}

UNames == {"u_size", "u_dt", "u_visc", "u_isX", "u_velocity",
           "u_velocityX", "u_velocityY", "u_pressure", "u_divergence"}

\* the sampler2D uniforms each fragment shader declares
Samplers(p) ==
  CASE p \in {"diffusionX", "diffusionY"} -> {"u_velocity"}
    [] p \in {"divergence", "render"} -> {"u_velocityX", "u_velocityY"}
    [] p = "pressureSolver" -> {"u_pressure", "u_divergence"}
    [] p = "velocityCorrection" -> {"u_velocity", "u_pressure"}
    [] OTHER -> {}

\* the float uniforms each fragment shader declares
Floats(p) ==
  CASE p \in {"diffusionX", "diffusionY"} -> {"u_size", "u_dt", "u_visc"}
    [] p \in {"divergence", "pressureSolver", "velocityCorrection"} -> {"u_size"}
    [] OTHER -> {}

NullFB == <<"null", 0>>
NoTexture == <<"none", 0>>

velocityX == [textures |-> [n \in 0..1 |-> <<"velocityX", n>>],
              framebuffers |-> [n \in 0..1 |-> <<"velocityX", n>>]]
velocityY == [textures |-> [n \in 0..1 |-> <<"velocityY", n>>],
              framebuffers |-> [n \in 0..1 |-> <<"velocityY", n>>]]
pressure == [textures |-> [n \in 0..1 |-> <<"pressure", n>>],
             framebuffers |-> [n \in 0..1 |-> <<"pressure", n>>]]
divergenceTexture == <<"divergence", 0>>
divergenceFBO == divergenceTexture

Textures == {velocityX.textures[n] : n \in 0..1}
              \cup {velocityY.textures[n] : n \in 0..1}
              \cup {pressure.textures[n] : n \in 0..1}
              \cup {divergenceTexture}

DoubleBufferFBOs == {velocityX.framebuffers[n] : n \in 0..1}
              \cup {velocityY.framebuffers[n] : n \in 0..1}
              \cup {pressure.framebuffers[n] : n \in 0..1}

\* ---------------------------------------------------------------- GL calls
\* The context right after getContext: default canvas of 300 x 150.
InitialGL ==
  [program |-> "none",
   framebuffer |-> NullFB,
   viewport |-> <<0, 0, 300, 150>>,
   units |-> [u \in 0..1 |-> NoTexture],
   uniforms |-> [p \in Programs |-> [n \in UNames |-> 0]]]

useProgram(g, p) == [g EXCEPT !.program = p]

bindFramebuffer(g, fbo) == [g EXCEPT !.framebuffer = fbo]

viewport(g, x, y, w, h) == [g EXCEPT !.viewport = <<x, y, w, h>>]

\* activeTexture(TEXTUREu) followed by bindTexture(TEXTURE_2D, t)
bindTexture(g, u, t) == [g EXCEPT !.units[u] = t]

\* uniform1f / uniform1i with a location of program p: it sets the uniform
\* of the program in use, and is an error (no effect) for another program's
\* location.
uniform(g, p, name, v) ==
  IF g.program = p THEN [g EXCEPT !.uniforms[p][name] = v] ELSE g

\* ----------------------------------------------------------------- state
VARIABLES pc, gl, canvas, currentX, currentY, i, index, sweep, frame, steps,
          content, lastCall, log, fbIncomplete, firstCall

vars == <<pc, gl, canvas, currentX, currentY, i, index, sweep, frame, steps,
          content, lastCall, log, fbIncomplete, firstCall>>

NullContent == [by |-> "null", step |-> 0, sweep |-> 0]
SeedContent == [by |-> "seed", step |-> 0, sweep |-> 0]

NoCall ==
  [program |-> "none", target |-> NullFB, viewport |-> <<0, 0, 0, 0>>,
   reads |-> [n \in UNames |-> NoTexture],
   readContent |-> [n \in UNames |-> NullContent],
   uniforms |-> [n \in UNames |-> 0],
   step |-> 0, sweep |-> 0, frame |-> 0]

\* What drawArrays does with context g: the program in use samples the
\* textures bound to the units its sampler uniforms name and writes the
\* bound framebuffer through the viewport.
DrawCall(g, cont, stepNo, sweepNo, frameNo) ==
  [program |-> g.program,
   target |-> g.framebuffer,
   viewport |-> g.viewport,
   reads |-> [n \in UNames |->
                IF n \in Samplers(g.program)
                  THEN g.units[g.uniforms[g.program][n]] ELSE NoTexture],
   readContent |-> [n \in UNames |->
                IF n \in Samplers(g.program)
                     /\ g.units[g.uniforms[g.program][n]] \in Textures
                  THEN cont[g.units[g.uniforms[g.program][n]]]
                  ELSE NullContent],
   uniforms |-> g.uniforms[g.program],
   step |-> stepNo, sweep |-> sweepNo, frame |-> frameNo]

\* The content of the textures after the draw call c.  A texture counts as
\* written by the last draw call issued with its framebuffer bound; the
\* script never looks at the outcome of a draw.
Written(cont, c) ==
  IF c.target \in Textures
    THEN [cont EXCEPT ![c.target] =
            [by |-> c.program, step |-> c.step, sweep |-> c.sweep]]
    ELSE cont

\* the first call of each program is remembered
Remember(fc, c) ==
  IF fc[c.program].program = "none" THEN [fc EXCEPT ![c.program] = c] ELSE fc

Init ==
  /\ pc = "create"
  /\ gl = InitialGL
  /\ \E w \in DisplaySizes, h \in DisplaySizes :
       canvas = [width |-> w, height |-> h]
  /\ currentX = 0
  /\ currentY = 0
  /\ i = 0
  /\ index = 0
  /\ sweep = 0
  /\ frame = 0
  /\ steps = 0
  /\ content = [t \in Textures |-> NullContent]
  /\ lastCall = NoCall
  /\ log = <<>>
  /\ fbIncomplete = FALSE
  /\ firstCall = [p \in Programs |-> NoCall]

\* -------------------------------------------------------- index arithmetic
\* `current ^ 1`: the slot of a double buffer that is not the active one
BackBuffer_same(current) == current
BackBuffer(current) == Xor1(current)

\* `currentX ^= 1`, `currentY ^= 1`
Flip_none(current) == current
Flip(current) == Xor1(current)

\* `index ^= 1` at the end of a pressure sweep
FlipIndex_stuck(ix) == ix
FlipIndex(ix) == Xor1(ix)

\* `i < params.iterations` of the loop of render
RenderLoopCond_offByOne(n) == n <= params.iterations
RenderLoopCond(n) == n < params.iterations

\* `i < 20` of the loop of project
SweepLoopCond_odd(n) == n < PRESSURE_SWEEPS - 1
SweepLoopCond(n) == n < PRESSURE_SWEEPS

\* ------------------------------------------------------------ GL sequences
\* createDoubleBufferTextures: each texture is bound to the active unit
\* (unit 0) and each framebuffer is bound in turn.
createDoubleBufferTextures(g, buf) ==
  LET g1 == bindTexture(g, 0, buf.textures[0])
      g2 == bindFramebuffer(g1, buf.framebuffers[0])
      g3 == bindTexture(g2, 0, buf.textures[1])
  IN  bindFramebuffer(g3, buf.framebuffers[1])

\* createFloatTexture followed by createFramebuffer
createDivergence(g) ==
  bindFramebuffer(bindTexture(g, 0, divergenceTexture), divergenceFBO)

\* handleResize(gl, canvas) with the display size (dw, dh)
handleResize(g, cv, dw, dh) ==
  IF cv.width # dw \/ cv.height # dh
    THEN [gl |-> viewport(g, 0, 0, dw, dh),
          canvas |-> [width |-> dw, height |-> dh]]
    ELSE [gl |-> g, canvas |-> cv]

\* render, "Diffuse X velocity", up to the draw call
setupDiffusionX_noViewport(g, cx) ==
  LET g1 == useProgram(g, "diffusionX")
      g2 == bindFramebuffer(g1, velocityX.framebuffers[BackBuffer(cx)])
      g4 == uniform(g2, "diffusionX", "u_size", F(SIM_SIZE))
      g5 == uniform(g4, "diffusionX", "u_dt", params.dt)
      g6 == uniform(g5, "diffusionX", "u_visc", F(SIM_SIZE))
      g7 == bindTexture(g6, 0, velocityX.textures[cx])
  IN  uniform(g7, "diffusionX", "u_velocity", 0)

setupDiffusionX(g, cx) ==
  LET g1 == useProgram(g, "diffusionX")
      g2 == bindFramebuffer(g1, velocityX.framebuffers[BackBuffer(cx)])
      g3 == viewport(g2, 0, 0, SIM_SIZE, SIM_SIZE)
      g4 == uniform(g3, "diffusionX", "u_size", F(SIM_SIZE))
      g5 == uniform(g4, "diffusionX", "u_dt", params.dt)
      g6 == uniform(g5, "diffusionX", "u_visc", F(SIM_SIZE))
      g7 == bindTexture(g6, 0, velocityX.textures[cx])
  IN  uniform(g7, "diffusionX", "u_velocity", 0)

\* render, "Diffuse Y velocity", up to the draw call
setupDiffusionY(g, cy, cv) ==
  LET g1 == useProgram(g, "diffusionY")
      g2 == bindFramebuffer(g1, velocityY.framebuffers[BackBuffer(cy)])
      g3 == uniform(g2, "diffusionY", "u_size", F(cv.width))
      g4 == uniform(g3, "diffusionY", "u_dt", params.dt)
      g5 == uniform(g4, "diffusionY", "u_visc", params.diffusion)
      g6 == bindTexture(g5, 0, velocityY.textures[cy])
  IN  uniform(g6, "diffusionY", "u_velocity", 0)

\* project, "Calculate divergence", up to the draw call
setupDivergence(g, cx, cy) ==
  LET g1 == useProgram(g, "divergence")
      g2 == bindFramebuffer(g1, divergenceFBO)
      g3 == viewport(g2, 0, 0, SIM_SIZE, SIM_SIZE)
      g4 == uniform(g3, "divergence", "u_size", F(SIM_SIZE))
      g5 == bindTexture(g4, 0, velocityX.textures[cx])
      g6 == uniform(g5, "divergence", "u_velocityX", 0)
      g7 == bindTexture(g6, 1, velocityY.textures[cy])
  IN  uniform(g7, "divergence", "u_velocityY", 1)

\* project, body of the Jacobi loop up to the draw call
setupPressure(g, ix) ==
  LET g1 == useProgram(g, "pressureSolver")
      g2 == bindFramebuffer(g1, pressure.framebuffers[BackBuffer(ix)])
      g3 == uniform(g2, "pressureSolver", "u_size", F(SIM_SIZE))
      g4 == bindTexture(g3, 0, pressure.textures[ix])
      g5 == uniform(g4, "pressureSolver", "u_pressure", 0)
      g6 == bindTexture(g5, 1, divergenceTexture)
  IN  uniform(g6, "pressureSolver", "u_divergence", 1)

\* project, "Correct velocities", X component, up to the draw call
setupCorrectionX(g, cx, ix) ==
  LET g1 == useProgram(g, "velocityCorrection")
      g2 == bindFramebuffer(g1, velocityX.framebuffers[BackBuffer(cx)])
      g3 == uniform(g2, "velocityCorrection", "u_size", F(SIM_SIZE))
      g4 == uniform(g3, "velocityCorrection", "u_isX", 1)
      g5 == bindTexture(g4, 0, velocityX.textures[cx])
      g6 == uniform(g5, "velocityCorrection", "u_velocity", 0)
      g7 == bindTexture(g6, 1, pressure.textures[ix])
  IN  uniform(g7, "velocityCorrection", "u_pressure", 1)

\* project, Y component, up to the draw call: the program, unit 1 and
\* u_pressure are left as the X component set them
setupCorrectionY(g, cy) ==
  LET g1 == bindFramebuffer(g, velocityY.framebuffers[BackBuffer(cy)])
      g2 == uniform(g1, "velocityCorrection", "u_isX", 0)
      g3 == bindTexture(g2, 0, velocityY.textures[cy])
  IN  uniform(g3, "velocityCorrection", "u_velocity", 0)

\* render, "Render to screen", up to the draw call
setupScreen(g, cx, cy, cv) ==
  LET g1 == viewport(g, 0, 0, cv.width, cv.height)
      g2 == useProgram(g1, "render")
      g3 == bindFramebuffer(g2, NullFB)
      g4 == bindTexture(g3, 0, velocityX.textures[cx])
      g5 == uniform(g4, "render", "u_velocityX", 0)
      g6 == bindTexture(g5, 1, velocityY.textures[cy])
  IN  uniform(g6, "render", "u_velocityY", 1)

\* ---------------------------------------------------------------- actions
\* the name of the kernel a draw call runs: the correction program does the
\* X pass when u_isX is set and the Y pass otherwise
KernelName(c) ==
  IF c.program = "velocityCorrection"
    THEN (IF c.uniforms["u_isX"] = 1 THEN "correctionX" ELSE "correctionY")
    ELSE c.program

\* the state change every draw call makes
Draw(g, stepNo, sweepNo) ==
  LET c == DrawCall(g, content, stepNo, sweepNo, frame)
  IN  /\ gl' = g
      /\ lastCall' = c
      /\ content' = Written(content, c)
      /\ log' = Append(log, KernelName(c))
      /\ firstCall' = Remember(firstCall, c)

\* Creation of the textures and framebuffers.  checkFramebufferStatus is an
\* answer of the driver: any of the six framebuffers may be incomplete, which
\* the script reports on the console and then goes on.
CreateTextures ==
  /\ pc = "create"
  /\ \E status \in [DoubleBufferFBOs -> {"COMPLETE", "INCOMPLETE"}] :
       fbIncomplete' = (\E f \in DoubleBufferFBOs : status[f] # "COMPLETE")
  /\ gl' = createDoubleBufferTextures(
             createDivergence(
               createDoubleBufferTextures(
                 createDoubleBufferTextures(gl, velocityX), velocityY)),
             pressure)
  /\ pc' = "seed"
  /\ UNCHANGED <<canvas, currentX, currentY, i, index, sweep, frame, steps,
                 content, lastCall, log, firstCall>>

\* initializeVelocityTexture on slot 0 of both components; the indices start
\* at 0
Seed ==
  /\ pc = "seed"
  /\ gl' = bindTexture(bindTexture(gl, 0, velocityX.textures[0]),
                       0, velocityY.textures[0])
  /\ content' = [content EXCEPT ![velocityX.textures[0]] = SeedContent,
                                ![velocityY.textures[0]] = SeedContent]
  /\ currentX' = 0
  /\ currentY' = 0
  /\ pc' = "setup"
  /\ UNCHANGED <<canvas, i, index, sweep, frame, steps, lastCall, log,
                 fbIncomplete, firstCall>>

\* "Initial setup": handleResize is called once before the first frame
InitialResize ==
  /\ pc = "setup"
  /\ \E dw \in DisplaySizes, dh \in DisplaySizes :
       LET r == handleResize(gl, canvas, dw, dh)
       IN  gl' = r.gl /\ canvas' = r.canvas
  /\ pc' = "idle"
  /\ UNCHANGED <<currentX, currentY, i, index, sweep, frame, steps, content,
                 lastCall, log, fbIncomplete, firstCall>>

\* a resize event of the window; handlers run between frames only
Resize ==
  /\ pc = "idle"
  /\ \E dw \in DisplaySizes, dh \in DisplaySizes :
       LET r == handleResize(gl, canvas, dw, dh)
       IN  gl' = r.gl /\ canvas' = r.canvas
  /\ UNCHANGED <<pc, currentX, currentY, i, index, sweep, frame, steps,
                 content, lastCall, log, fbIncomplete, firstCall>>

\* render is entered: the screen is bound and cleared, the loop starts
RenderBegin ==
  /\ pc = "idle"
  /\ frame < MaxFrames
  /\ frame' = frame + 1
  /\ gl' = bindFramebuffer(gl, NullFB)
  /\ i' = 0
  /\ log' = <<>>
  /\ pc' = IF RenderLoopCond(0) THEN "diffX" ELSE "screen"
  /\ UNCHANGED <<canvas, currentX, currentY, index, sweep, steps, content,
                 lastCall, fbIncomplete, firstCall>>

\* the first draw of a step of the loop of render
DiffuseX ==
  /\ pc = "diffX"
  /\ steps' = steps + 1
  /\ Draw(setupDiffusionX(gl, currentX), steps + 1, 0)
  /\ currentX' = Flip(currentX)
  /\ pc' = "diffY"
  /\ UNCHANGED <<canvas, currentY, i, index, sweep, frame, fbIncomplete>>

DiffuseY ==
  /\ pc = "diffY"
  /\ Draw(setupDiffusionY(gl, currentY, canvas), steps, 0)
  /\ currentY' = Flip(currentY)
  /\ pc' = "divergence"
  /\ UNCHANGED <<canvas, currentX, i, index, sweep, frame, steps, fbIncomplete>>

\* project: the divergence, then `let index = 0` and the loop starts
Divergence ==
  /\ pc = "divergence"
  /\ Draw(setupDivergence(gl, currentX, currentY), steps, 0)
  /\ index' = 0
  /\ sweep' = 0
  /\ pc' = IF SweepLoopCond(0) THEN "pressure" ELSE "correctX"
  /\ UNCHANGED <<canvas, currentX, currentY, i, frame, steps, fbIncomplete>>

PressureSweep ==
  /\ pc = "pressure"
  /\ Draw(setupPressure(gl, index), steps, sweep)
  /\ index' = FlipIndex(index)
  /\ sweep' = sweep + 1
  /\ pc' = IF SweepLoopCond(sweep + 1) THEN "pressure" ELSE "correctX"
  /\ UNCHANGED <<canvas, currentX, currentY, i, frame, steps, fbIncomplete>>

CorrectX ==
  /\ pc = "correctX"
  /\ Draw(setupCorrectionX(gl, currentX, index), steps, 0)
  /\ currentX' = Flip(currentX)
  /\ pc' = "correctY"
  /\ UNCHANGED <<canvas, currentY, i, index, sweep, frame, steps, fbIncomplete>>

\* the last draw of project; project returns and the loop of render goes on
CorrectY ==
  /\ pc = "correctY"
  /\ Draw(setupCorrectionY(gl, currentY), steps, 0)
  /\ currentY' = Flip(currentY)
  /\ i' = i + 1
  /\ pc' = IF RenderLoopCond(i + 1) THEN "diffX" ELSE "screen"
  /\ UNCHANGED <<canvas, currentX, index, sweep, frame, steps, fbIncomplete>>

\* the draw to the screen; the next frame is scheduled
ScreenDraw ==
  /\ pc = "screen"
  /\ Draw(setupScreen(gl, currentX, currentY, canvas), steps, 0)
  /\ pc' = "idle"
  /\ UNCHANGED <<canvas, currentX, currentY, i, index, sweep, frame, steps,
                 fbIncomplete>>

Next ==
  \/ CreateTextures
  \/ Seed
  \/ InitialResize
  \/ Resize
  \/ RenderBegin
  \/ DiffuseX
  \/ DiffuseY
  \/ Divergence
  \/ PressureSweep
  \/ CorrectX
  \/ CorrectY
  \/ ScreenDraw

Spec == Init /\ [][Next]_vars

\* ------------------------------------------------------------- properties
SimViewport == <<0, 0, SIM_SIZE, SIM_SIZE>>

IsKernelCall == lastCall.program \in Kernels

\* C1: in every kernel invocation the framebuffer bound as the write target
\* is attached to a texture that none of the kernel's samplers reads.
C1_NoReadWriteSameBuffer ==
  IsKernelCall =>
    \A n \in Samplers(lastCall.program) : lastCall.reads[n] # lastCall.target

C1_Witness ==
  /\ lastCall.program = "pressureSolver"
  /\ lastCall.sweep = PRESSURE_SWEEPS - 1
  /\ lastCall.target = pressure.framebuffers[0]
  /\ lastCall.reads["u_pressure"] = pressure.textures[1]
  /\ frame >= 2

\* the kernels of one step, in order
StepSeq ==
  <<"diffusionX", "diffusionY", "divergence">>
    \o [n \in 1..PRESSURE_SWEEPS |-> "pressureSolver"]
    \o <<"correctionX", "correctionY">>

\* the draw calls of one frame, in order
ExpectedFrame ==
  [n \in 1..(params.iterations * Len(StepSeq) + 1) |->
     IF n = params.iterations * Len(StepSeq) + 1
       THEN "render"
       ELSE StepSeq[((n - 1) % Len(StepSeq)) + 1]]

\* C2: the draw calls of a frame are exactly params.iterations steps followed
\* by one screen draw, every step being diffusion X, diffusion Y, divergence,
\* the pressure sweeps, correction X, correction Y; and every pressure sweep
\* reads the divergence computed in its own step.
C2_FrameOrder ==
  /\ Len(log) <= Len(ExpectedFrame)
  /\ \A n \in 1..Len(log) : log[n] = ExpectedFrame[n]
  /\ (pc = "idle" /\ frame > 0) => log = ExpectedFrame
  /\ lastCall.program = "pressureSolver" =>
       /\ lastCall.reads["u_divergence"] = divergenceTexture
       /\ lastCall.readContent["u_divergence"] =
            [by |-> "divergence", step |-> lastCall.step, sweep |-> 0]

C2_Witness ==
  /\ pc = "idle"
  /\ frame >= 2
  /\ Len(log) = params.iterations * (PRESSURE_SWEEPS + 5) + 1

\* C3: the first pressure sweep of every projection after the first reads
\* slot 0 of the pressure buffer (the index is reset to 0), and what it finds
\* there is what the last of the 20 sweeps of the preceding projection wrote.
C3_PressureWarmStart ==
  /\ (lastCall.program = "pressureSolver" /\ lastCall.sweep = 0) =>
        lastCall.reads["u_pressure"] = pressure.textures[0]
  /\ (lastCall.program = "pressureSolver" /\ lastCall.sweep = 0
        /\ lastCall.step > 1) =>
        lastCall.readContent["u_pressure"] =
          [by |-> "pressureSolver", step |-> lastCall.step - 1,
           sweep |-> PRESSURE_SWEEPS - 1]
  /\ pc = "correctX" =>
        (lastCall.program = "pressureSolver"
           /\ lastCall.sweep = PRESSURE_SWEEPS - 1)

C3_Witness ==
  /\ lastCall.program = "pressureSolver"
  /\ lastCall.sweep = 0
  /\ lastCall.step = params.iterations + 1
  /\ lastCall.readContent["u_pressure"].step = params.iterations

\* C4: the diffusion pass of Y is invoked with the same u_size, u_visc and
\* u_dt as the diffusion pass of X of the same step.
C4_DiffusionSameConstants ==
  lastCall.program = "diffusionY" =>
    \A n \in Floats("diffusionY") :
      lastCall.uniforms[n] = gl.uniforms["diffusionX"][n]

\* the textures of the double buffer that t belongs to
Siblings(t) == {u \in Textures : u[1] = t[1]}

\* C5: at every screen draw the renderer samples, for each component, the
\* slot the active index names, and that slot is the one the correction pass
\* of the last step wrote; the other slot holds the older diffusion output.
C5_ScreenReadsActive ==
  lastCall.program = "render" =>
    /\ lastCall.reads["u_velocityX"] = velocityX.textures[currentX]
    /\ lastCall.reads["u_velocityY"] = velocityY.textures[currentY]
    /\ \A n \in {"u_velocityX", "u_velocityY"} :
         /\ lastCall.readContent[n] =
              [by |-> "velocityCorrection", step |-> steps, sweep |-> 0]
         /\ \A u \in Siblings(lastCall.reads[n]) \ {lastCall.reads[n]} :
              content[u].by \in {"diffusionX", "diffusionY"}

C5_Witness ==
  /\ lastCall.program = "render"
  /\ frame >= 2
  /\ steps = 2 * params.iterations
  /\ lastCall.reads["u_velocityX"] = velocityX.textures[0]

\* C6: the float uniforms passed to a kernel in any step equal those passed
\* to the same kernel in the first step.
C6_ParamsReadOnly ==
  IsKernelCall =>
    \A n \in Floats(lastCall.program) :
      lastCall.uniforms[n] = firstCall[lastCall.program].uniforms[n]

\* C7: once a framebuffer was reported incomplete, no kernel and no screen
\* draw is issued.
C7_AllocationFailureFatal ==
  fbIncomplete => lastCall.program = "none"

\* C8: both correction passes read the pressure slot the local index names,
\* and what they find there is what the last sweep of this projection wrote.
C8_CorrectionReadsFinalPressure ==
  lastCall.program = "velocityCorrection" =>
    /\ lastCall.reads["u_pressure"] = pressure.textures[index]
    /\ lastCall.readContent["u_pressure"] =
         [by |-> "pressureSolver", step |-> lastCall.step,
          sweep |-> sweep - 1]

C8_Witness ==
  /\ lastCall.program = "velocityCorrection"
  /\ lastCall.uniforms["u_isX"] = 0
  /\ lastCall.readContent["u_pressure"].sweep = PRESSURE_SWEEPS - 1
  /\ lastCall.step > 1

\* C9: every kernel draw call goes through the viewport (0, 0, N, N),
\* whatever resizes and screen draws came before.
C9_FullGridWrites ==
  IsKernelCall => lastCall.viewport = SimViewport

C9_Witness ==
  /\ lastCall.program = "diffusionX"
  /\ frame >= 2
  /\ canvas.width # SIM_SIZE
  /\ lastCall.viewport = SimViewport

\* the active indices at each position of a step
C10_Indices ==
  /\ pc \in {"seed", "setup", "idle", "diffX", "screen"} =>
       (currentX = 0 /\ currentY = 0)
  /\ pc = "diffY" => (currentX = 1 /\ currentY = 0)
  /\ pc \in {"divergence", "pressure", "correctX"} =>
       (currentX = 1 /\ currentY = 1)
  /\ pc = "correctY" => (currentX = 0 /\ currentY = 1)
  /\ lastCall.program = "render" =>
       (lastCall.reads["u_velocityX"] = velocityX.textures[0]
          /\ lastCall.reads["u_velocityY"] = velocityY.textures[0])

\* C10: currentX and currentY are both 0 at the start and at the end of every
\* step and at every screen draw, each is 1 between its two flips, and an
\* index changes only at its diffusion pass and at its correction pass (two
\* flips a step).
C10_TwoFlipsPerStep ==
  /\ []C10_Indices
  /\ [][/\ currentX' # currentX => pc \in {"diffX", "correctX"}
        /\ currentY' # currentY => pc \in {"diffY", "correctY"}
        /\ pc \in {"diffX", "correctX"} => currentX' # currentX
        /\ pc \in {"diffY", "correctY"} => currentY' # currentY]_vars

C10_Witness ==
  /\ pc = "correctY"
  /\ currentX = 0
  /\ currentY = 1
  /\ steps = 2 * params.iterations

====
